---- MODULE Spec2Model ----
(***************************************************************************)
(* Trial lifecycle of the hand-tracking jsPsych plugin.                    *)
(*                                                                         *)
(*   live / recording variant : src/src/plugin.ts                          *)
(*   static-image variant     : src/unnamed/part_000                       *)
(*                                                                         *)
(* The browser runs every callback to completion, so each promise          *)
(* continuation, animation-frame callback and button handler is one        *)
(* action.  The third-party providers (handTrack, the model, the recorder, *)
(* navigator.mediaDevices, jsPsych) are test doubles: their promises       *)
(* settle nondeterministically and the calls made to them are recorded.    *)
(***************************************************************************)
EXTENDS Integers, Sequences, FiniteSets, TLC

\* ---------------------------------------------------------------- bounds
\* longest prediction sequence a detect call resolves with
MaxLen == 2
\* the detect-call counter saturates at this value
MaxDetect == 2
\* number of times the participant presses "End Experiment"
MaxEndClicks == 2
\* the clock advances at most this many ticks after trial start
MaxElapsed == 1

\* ------------------------------------------------------- inputs / texts
\* values of performance.now() at trial start
StartTimes == {0, 5}

\* trial.trial, the pass-through identifier
TrialIds == {"t1", "t2"}

\* prediction objects returned by model.detect: class 5 is the face class
PredictionSet ==
  { [class |-> 1, label |-> "open"],
    [class |-> 5, label |-> "face"] }

RECURSIVE SeqsUpTo(_, _)
SeqsUpTo(S, n) ==
  IF n = 0 THEN { << >> }
  ELSE LET shorter == SeqsUpTo(S, n - 1)
       IN  shorter \cup { Append(s, e) : s \in { t \in shorter : Len(t) = n - 1 }, e \in S }

PredictionSeqs == SeqsUpTo(PredictionSet, MaxLen)

\* status texts (the source's check mark and "prohibited" emoji are spelled out)
StatusLoading   == "Loading model..."
StatusInvalid   == "Two hands visible: no"
StatusValid     == "Two hands visible: yes"
StatusAnalyzing == "Analyzing image..."

BorderInitial == "black 5px solid"
BorderValid   == "lightgreen 5px solid"
BorderInvalid == "red 5px solid"

VARIABLES
  variant,        \* "live" (plugin.ts) or "static" (part_000)
  pc,             \* position of the async trial function
  now,            \* performance.now()
  startTime,      \* const startTime
  trialData,      \* const trialData = { trial, trialDuration }
  status,         \* status.textContent
  border,         \* canvas.style.border ("none": no canvas yet)
  visibility,     \* canvas.style.visibility
  rendered,       \* what model.renderPredictions last drew: << >> or << predictions >>
  loadP,          \* promise of handTrack.load()
  videoP,         \* promise of handTrack.startVideo(video)
  mediaP,         \* promise of navigator.mediaDevices.getUserMedia(...)
  inflight,       \* number of unsettled model.detect promises
  detectP,        \* promise of the latest model.detect call
  scheduled,      \* number of pending requestAnimationFrame callbacks
  predictions,    \* predictions of the last resolved detect call
  detectCalls,    \* model.detect calls so far (saturating at MaxDetect)
  buttons,        \* TRUE once the button row exists
  btnStartDisabled,
  btnStopDisabled,
  recorder,       \* state of the recorder double
  stopCbPending,  \* recorder.stopRecording callback registered, not yet run
  endClicks,      \* presses of "End Experiment"
  calls           \* lifecycle calls made to the providers, in order

vars == << variant, pc, now, startTime, trialData, status, border, visibility, rendered,
           loadP, videoP, mediaP, inflight, detectP, scheduled, predictions, detectCalls,
           buttons, btnStartDisabled, btnStopDisabled, recorder, stopCbPending,
           endClicks, calls >>

\* variable groups
clockVars  == << now, startTime >>
uiVars     == << status, border, visibility, rendered >>
loopVars   == << inflight, detectP, scheduled, predictions, detectCalls >>
recVars    == << buttons, btnStartDisabled, btnStopDisabled, recorder, stopCbPending >>

\* ------------------------------------------------------------ helpers
Count(seq, x) == Cardinality({ i \in 1..Len(seq) : seq[i] = x })

finishCalls == Count(calls, "finishTrial")

Bump(n) == IF n < MaxDetect THEN n + 1 ELSE n

\* plugin.trial up to the first await: trialData, startTime, status node
Init ==
  /\ variant \in {"live", "static"}
  /\ pc = "awaitLoad"
  /\ startTime \in StartTimes
  /\ now = startTime
  /\ \E id \in TrialIds : trialData = [trial |-> id, trialDuration |-> 0]
  /\ status = IF variant = "live" THEN StatusLoading ELSE StatusAnalyzing
  /\ border = "none"
  /\ visibility = "none"
  /\ rendered = << >>
  /\ loadP = "pending"
  /\ videoP = "none"
  /\ mediaP = "none"
  /\ inflight = 0
  /\ detectP = "none"
  /\ scheduled = 0
  /\ predictions = << >>
  /\ detectCalls = 0
  /\ buttons = FALSE
  /\ btnStartDisabled = FALSE
  /\ btnStopDisabled = FALSE
  /\ recorder = "none"
  /\ stopCbPending = FALSE
  /\ endClicks = 0
  /\ calls = << "load" >>

\* ------------------------------------------------------ pure functions
\* the class value validPositioning does not count
NoHandClass == 5

\* the for-loop of validPositioning: i is the next index, handCount the tally
RECURSIVE CountHands(_, _, _)
CountHands(preds, i, handCount) ==
  IF i > Len(preds) THEN handCount
  ELSE CountHands(preds, i + 1,
                  IF preds[i].class # NoHandClass THEN handCount + 1 ELSE handCount)

\* variant: one hand is taken to be enough
validPositioning_oneHand(preds) == CountHands(preds, 1, 0) > 0

validPositioning(preds) == CountHands(preds, 1, 0) > 1

\* Array.prototype.join
RECURSIVE Join(_, _)
Join(strs, sep) ==
  IF Len(strs) = 0 THEN ""
  ELSE IF Len(strs) = 1 THEN strs[1]
  ELSE strs[1] \o sep \o Join(Tail(strs), sep)

\* predictions.map(p => `Hand: ${p.label}`).join(", ")
LabelSummary(preds) ==
  Join([i \in 1..Len(preds) |-> "Hand: " \o preds[i].label], ", ")

\* ------------------------------------------------------ shared pieces
\* variant: the start time is not subtracted
duration_absolute == now

\* const duration = performance.now() - startTime
duration == now - startTime

\* finishTrial(): store the duration, hand trialData to jsPsych.finishTrial;
\* log is the call log as the enclosing callback has extended it so far
finishTrial(log) ==
  /\ trialData' = [trialData EXCEPT !.trialDuration = duration]
  /\ calls' = Append(log, "finishTrial")

\* variant: the next frame is requested without waiting for the detect call
runDetection_eagerFrame(sched) ==
  /\ inflight' = inflight + 1
  /\ detectP' = "pending"
  /\ detectCalls' = Bump(detectCalls)
  /\ scheduled' = sched + 1

\* runDetection(): issue one model.detect call; the next frame is requested
\* only by the continuation of that call, so the pending frames stay at sched
runDetection(sched) ==
  /\ inflight' = inflight + 1
  /\ detectP' = "pending"
  /\ detectCalls' = Bump(detectCalls)
  /\ scheduled' = sched

\* variant: the trial is reported finished before the resources are released
onFinish_finishFirst ==
  /\ trialData' = [trialData EXCEPT !.trialDuration = duration]
  /\ calls' = calls \o << "finishTrial", "stopVideo", "dispose" >>

\* onFinish(): stop the camera, dispose of the model, finish the trial
onFinish ==
  finishTrial(calls \o << "stopVideo", "dispose" >>)

\* --------------------------------------------------- live variant steps
\* variant: the button row is built before getUserMedia is awaited
LiveLoadResolve_buttonsEarly ==
  /\ variant = "live" /\ pc = "awaitLoad" /\ loadP = "pending"
  /\ loadP' = "resolved"
  /\ status' = StatusInvalid
  /\ border' = BorderInitial
  /\ visibility' = "visible"
  /\ videoP' = "pending"
  /\ mediaP' = "pending"
  /\ calls' = calls \o << "startVideo", "getUserMedia" >>
  /\ buttons' = TRUE
  /\ btnStartDisabled' = FALSE
  /\ btnStopDisabled' = TRUE
  /\ pc' = "awaitMedia"
  /\ UNCHANGED << variant, clockVars, trialData, rendered, loopVars, recorder,
                  stopCbPending, endClicks >>

\* handTrack.load() resolves: default status, canvas, startVideo requested,
\* then the function suspends on getUserMedia
LiveLoadResolve ==
  /\ variant = "live" /\ pc = "awaitLoad" /\ loadP = "pending"
  /\ loadP' = "resolved"
  /\ status' = StatusInvalid
  /\ border' = BorderInitial
  /\ visibility' = "visible"
  /\ videoP' = "pending"
  /\ mediaP' = "pending"
  /\ calls' = calls \o << "startVideo", "getUserMedia" >>
  /\ pc' = "awaitMedia"
  /\ UNCHANGED << variant, clockVars, trialData, rendered, loopVars, recVars, endClicks >>

\* handTrack.load() rejects: the async trial function ends with a rejection
LoadReject ==
  /\ pc = "awaitLoad" /\ loadP = "pending"
  /\ loadP' = "rejected"
  /\ pc' = "failed"
  /\ UNCHANGED << variant, clockVars, trialData, uiVars, videoP, mediaP, loopVars,
                  recVars, endClicks, calls >>

\* variant: the success flag is ignored
StartVideoResolve_ignoreFlag(ok) ==
  /\ videoP = "pending"
  /\ videoP' = IF ok THEN "true" ELSE "false"
  /\ runDetection(scheduled) /\ UNCHANGED predictions
  /\ UNCHANGED << variant, pc, clockVars, trialData, uiVars, loadP, mediaP,
                  recVars, endClicks, calls >>

\* handTrack.startVideo(video) resolves with a success flag
StartVideoResolve(ok) ==
  /\ videoP = "pending"
  /\ videoP' = IF ok THEN "true" ELSE "false"
  /\ IF ok THEN runDetection(scheduled) /\ UNCHANGED predictions
           ELSE UNCHANGED loopVars
  /\ UNCHANGED << variant, pc, clockVars, trialData, uiVars, loadP, mediaP,
                  recVars, endClicks, calls >>

StartVideoReject ==
  /\ videoP = "pending"
  /\ videoP' = "rejected"
  /\ UNCHANGED << variant, pc, clockVars, trialData, uiVars, loadP, mediaP,
                  loopVars, recVars, endClicks, calls >>

\* variant: an affirmative status is kept once it has been shown
DetectResolve_sticky(preds) ==
  /\ variant = "live" /\ inflight > 0
  /\ inflight' = inflight - 1
  /\ detectP' = "resolved"
  /\ predictions' = preds
  /\ IF validPositioning(preds) \/ status = StatusValid
       THEN status' = StatusValid /\ border' = BorderValid
       ELSE status' = StatusInvalid /\ border' = BorderInvalid
  /\ rendered' = << preds >>
  /\ scheduled' = scheduled + 1
  /\ UNCHANGED << variant, pc, clockVars, trialData, visibility, loadP, videoP, mediaP,
                  detectCalls, recVars, endClicks, calls >>

\* variant: the continuation does not request the next frame
DetectResolve_noNextFrame(preds) ==
  /\ variant = "live" /\ inflight > 0
  /\ inflight' = inflight - 1
  /\ detectP' = "resolved"
  /\ predictions' = preds
  /\ IF validPositioning(preds)
       THEN status' = StatusValid /\ border' = BorderValid
       ELSE status' = StatusInvalid /\ border' = BorderInvalid
  /\ rendered' = << preds >>
  /\ UNCHANGED << variant, pc, clockVars, trialData, visibility, loadP, videoP, mediaP,
                  scheduled, detectCalls, recVars, endClicks, calls >>

\* a model.detect call of the poll loop resolves: feedback, render, next frame
DetectResolve(preds) ==
  /\ variant = "live" /\ inflight > 0
  /\ inflight' = inflight - 1
  /\ detectP' = "resolved"
  /\ predictions' = preds
  /\ IF validPositioning(preds)
       THEN status' = StatusValid /\ border' = BorderValid
       ELSE status' = StatusInvalid /\ border' = BorderInvalid
  /\ rendered' = << preds >>
  /\ scheduled' = scheduled + 1
  /\ UNCHANGED << variant, pc, clockVars, trialData, visibility, loadP, videoP, mediaP,
                  detectCalls, recVars, endClicks, calls >>

\* variant: a rejected call is retried on the next frame
DetectReject_retry ==
  /\ variant = "live" /\ inflight > 0
  /\ inflight' = inflight - 1
  /\ detectP' = "rejected"
  /\ scheduled' = scheduled + 1
  /\ UNCHANGED << variant, pc, clockVars, trialData, uiVars, loadP, videoP, mediaP,
                  predictions, detectCalls, recVars, endClicks, calls >>

\* a model.detect call of the poll loop rejects: nothing handles it
DetectReject ==
  /\ variant = "live" /\ inflight > 0
  /\ inflight' = inflight - 1
  /\ detectP' = "rejected"
  /\ UNCHANGED << variant, pc, clockVars, trialData, uiVars, loadP, videoP, mediaP,
                  scheduled, predictions, detectCalls, recVars, endClicks, calls >>

\* the browser delivers a requested animation frame: runDetection runs
AnimationFrame ==
  /\ scheduled > 0
  /\ runDetection(scheduled - 1)
  /\ UNCHANGED << variant, pc, clockVars, trialData, uiVars, loadP, videoP, mediaP,
                  predictions, recVars, endClicks, calls >>

\* getUserMedia resolves: recorder and button row are created
MediaResolve ==
  /\ pc = "awaitMedia" /\ mediaP = "pending"
  /\ mediaP' = "resolved"
  /\ recorder' = "idle"
  /\ buttons' = TRUE
  /\ btnStartDisabled' = FALSE
  /\ btnStopDisabled' = TRUE
  /\ pc' = "done"
  /\ UNCHANGED << variant, clockVars, trialData, uiVars, loadP, videoP, loopVars,
                  stopCbPending, endClicks, calls >>

\* variant: the rejection is swallowed and the button row is built anyway
MediaReject_continue ==
  /\ pc = "awaitMedia" /\ mediaP = "pending"
  /\ mediaP' = "rejected"
  /\ buttons' = TRUE
  /\ btnStartDisabled' = FALSE
  /\ btnStopDisabled' = TRUE
  /\ pc' = "done"
  /\ UNCHANGED << variant, clockVars, trialData, uiVars, loadP, videoP, loopVars,
                  recorder, stopCbPending, endClicks, calls >>

\* getUserMedia rejects: the async trial function ends with a rejection
MediaReject ==
  /\ pc = "awaitMedia" /\ mediaP = "pending"
  /\ mediaP' = "rejected"
  /\ pc' = "failed"
  /\ UNCHANGED << variant, clockVars, trialData, uiVars, loadP, videoP, loopVars,
                  recVars, endClicks, calls >>

\* "Show / Hide Video"
btnHide ==
  /\ buttons
  /\ visibility' = IF visibility = "visible" THEN "hidden" ELSE "visible"
  /\ UNCHANGED << variant, pc, clockVars, trialData, status, border, rendered, loadP,
                  videoP, mediaP, loopVars, recVars, endClicks, calls >>

\* variant: the start button is left enabled
btnStart_staysEnabled ==
  /\ buttons /\ ~btnStartDisabled
  /\ btnStopDisabled' = FALSE
  /\ calls' = Append(calls, "startRecording")
  /\ recorder' = IF recorder = "idle" THEN "recording" ELSE recorder
  /\ UNCHANGED << variant, pc, clockVars, trialData, uiVars, loadP, videoP, mediaP,
                  loopVars, buttons, btnStartDisabled, stopCbPending, endClicks >>

\* "Start Recording" (a disabled button receives no click)
btnStart ==
  /\ buttons /\ ~btnStartDisabled
  /\ btnStopDisabled' = FALSE
  /\ btnStartDisabled' = TRUE
  /\ calls' = Append(calls, "startRecording")
  /\ recorder' = IF recorder = "idle" THEN "recording" ELSE recorder
  /\ UNCHANGED << variant, pc, clockVars, trialData, uiVars, loadP, videoP, mediaP,
                  loopVars, buttons, stopCbPending, endClicks >>

\* variant: stopping the recording also resets the canvas border
btnStop_resetsBorder ==
  /\ buttons /\ ~btnStopDisabled
  /\ btnStopDisabled' = TRUE
  /\ calls' = Append(calls, "stopRecording")
  /\ recorder' = IF recorder = "recording" THEN "stopped" ELSE recorder
  /\ stopCbPending' = TRUE
  /\ border' = BorderInitial
  /\ UNCHANGED << variant, pc, clockVars, trialData, status, visibility, rendered,
                  loadP, videoP, mediaP, loopVars, buttons, btnStartDisabled, endClicks >>

\* "Stop Recording"
btnStop ==
  /\ buttons /\ ~btnStopDisabled
  /\ btnStopDisabled' = TRUE
  /\ calls' = Append(calls, "stopRecording")
  /\ recorder' = IF recorder = "recording" THEN "stopped" ELSE recorder
  /\ stopCbPending' = TRUE
  /\ UNCHANGED << variant, pc, clockVars, trialData, uiVars, loadP, videoP, mediaP,
                  loopVars, buttons, btnStartDisabled, endClicks >>

\* variant: the recorder is destroyed before its blob is fetched
StopCallback_destroyFirst ==
  /\ stopCbPending
  /\ stopCbPending' = FALSE
  /\ calls' = calls \o << "destroy", "getBlob", "invokeSaveAsDialog" >>
  /\ recorder' = "destroyed"
  /\ UNCHANGED << variant, pc, clockVars, trialData, uiVars, loadP, videoP, mediaP,
                  loopVars, buttons, btnStartDisabled, btnStopDisabled, endClicks >>

\* the callback handed to recorder.stopRecording runs
StopCallback ==
  /\ stopCbPending
  /\ stopCbPending' = FALSE
  /\ calls' = calls \o << "getBlob", "invokeSaveAsDialog", "destroy" >>
  /\ recorder' = "destroyed"
  /\ UNCHANGED << variant, pc, clockVars, trialData, uiVars, loadP, videoP, mediaP,
                  loopVars, buttons, btnStartDisabled, btnStopDisabled, endClicks >>

\* "End Experiment": btnEnd.onclick = onFinish
btnEnd ==
  /\ buttons
  /\ endClicks < MaxEndClicks
  /\ endClicks' = endClicks + 1
  /\ onFinish
  /\ UNCHANGED << variant, pc, clockVars, uiVars, loadP, videoP, mediaP,
                  loopVars, recVars >>

\* ------------------------------------------------- static variant steps
\* variant: the detect call is not awaited before the trial is finished
StaticLoadResolve_noAwait ==
  /\ variant = "static" /\ pc = "awaitLoad" /\ loadP = "pending"
  /\ loadP' = "resolved"
  /\ inflight' = inflight + 1
  /\ detectP' = "pending"
  /\ detectCalls' = Bump(detectCalls)
  /\ finishTrial(calls)
  /\ pc' = "awaitDetect"
  /\ UNCHANGED << variant, clockVars, uiVars, videoP, mediaP, scheduled,
                  predictions, recVars, endClicks >>

\* handTrack.load() resolves: the single model.detect(img) call is issued
StaticLoadResolve ==
  /\ variant = "static" /\ pc = "awaitLoad" /\ loadP = "pending"
  /\ loadP' = "resolved"
  /\ inflight' = inflight + 1
  /\ detectP' = "pending"
  /\ detectCalls' = Bump(detectCalls)
  /\ pc' = "awaitDetect"
  /\ UNCHANGED << variant, clockVars, trialData, uiVars, videoP, mediaP, scheduled,
                  predictions, recVars, endClicks, calls >>

\* model.detect(img) resolves: label summary, then finishTrial()
StaticDetectResolve(preds) ==
  /\ pc = "awaitDetect" /\ inflight > 0
  /\ inflight' = inflight - 1
  /\ detectP' = "resolved"
  /\ predictions' = preds
  /\ status' = LabelSummary(preds)
  /\ finishTrial(calls)
  /\ pc' = "done"
  /\ UNCHANGED << variant, clockVars, border, visibility, rendered, loadP, videoP,
                  mediaP, scheduled, detectCalls, recVars, endClicks >>

StaticDetectReject ==
  /\ pc = "awaitDetect" /\ inflight > 0
  /\ inflight' = inflight - 1
  /\ detectP' = "rejected"
  /\ pc' = "failed"
  /\ UNCHANGED << variant, clockVars, trialData, uiVars, loadP, videoP, mediaP,
                  scheduled, predictions, detectCalls, recVars, endClicks, calls >>

\* the wall clock advances
Tick ==
  /\ now < startTime + MaxElapsed
  /\ now' = now + 1
  /\ UNCHANGED << variant, pc, startTime, trialData, uiVars, loadP, videoP, mediaP,
                  loopVars, recVars, endClicks, calls >>

Next ==
  \/ Tick
  \/ LiveLoadResolve
  \/ StaticLoadResolve
  \/ LoadReject
  \/ \E ok \in BOOLEAN : StartVideoResolve(ok)
  \/ StartVideoReject
  \/ \E preds \in PredictionSeqs : DetectResolve(preds)
  \/ DetectReject
  \/ AnimationFrame
  \/ MediaResolve
  \/ MediaReject
  \/ btnHide
  \/ btnStart
  \/ btnStop
  \/ StopCallback
  \/ btnEnd
  \/ \E preds \in PredictionSeqs : StaticDetectResolve(preds)
  \/ StaticDetectReject

Spec == Init /\ [][Next]_vars

\* promises settle and requested animation frames are delivered
FairSpec ==
  /\ Spec
  /\ WF_vars(LiveLoadResolve \/ StaticLoadResolve \/ LoadReject)
  /\ WF_vars((\E preds \in PredictionSeqs : StaticDetectResolve(preds)) \/ StaticDetectReject)
  /\ WF_vars((\E preds \in PredictionSeqs : DetectResolve(preds)) \/ DetectReject)
  /\ WF_vars(AnimationFrame)

\* ------------------------------------------------------------- properties
\* the step appends a call of this name to the log
Called(name) ==
  \E i \in (Len(calls) + 1)..Len(calls') : calls'[i] = name

\* number of predictions whose class is not the no-hand class
NonSentinel(preds) ==
  Cardinality({ i \in 1..Len(preds) : preds[i].class # 5 })

\* C1: jsPsych.finishTrial is never invoked more than once for a trial.
C1_FinishTrialAtMostOnce == finishCalls <= 1

\* C2: in the live variant, once teardown has been processed no new model.detect
\* call is issued and no new animation frame is requested.
C2_NoDetectionAfterTeardown ==
  [][ (variant = "live" /\ finishCalls > 0)
        => (inflight' <= inflight /\ scheduled' <= scheduled) ]_vars

\* C3: in the live variant at most one model.detect call is in flight, and a
\* detect call is issued only when the previous one has resolved and either it
\* is the first call or the step is the delivery of the requested frame.
C3_DetectionSequential ==
  /\ [](variant = "live" => inflight <= 1)
  /\ [][ (variant = "live" /\ inflight' > inflight)
           => /\ inflight = 0
              /\ (detectCalls = 0 \/ (scheduled = 1 /\ scheduled' = 0)) ]_vars

C3_Witness ==
  variant = "live" /\ detectCalls >= 2 /\ inflight = 1 /\ finishCalls = 0

\* C4: validPositioning is true exactly when at least two predictions have a
\* class other than 5, false for zero or one such prediction, and the feedback
\* of a completed iteration shows that result.
C4_ValidPositioningTwoHands ==
  /\ validPositioning(predictions) = (NonSentinel(predictions) >= 2)
  /\ (NonSentinel(predictions) \in {0, 1} => ~validPositioning(predictions))
  /\ (variant = "live" /\ border \notin {"none", BorderInitial}
        => ((status = StatusValid) <=> (NonSentinel(predictions) >= 2)))

C4_Witness ==
  /\ variant = "live"
  /\ predictions = << [class |-> 1, label |-> "open"],
                      [class |-> 1, label |-> "open"] >>
  /\ status = StatusValid

\* C5: the trialDuration handed to the completion callback is the clock at the
\* finish minus the clock at trial start; it is never negative and is 0 only
\* when no time has elapsed.
C5_DurationIsElapsedTime ==
  /\ [](trialData.trialDuration >= 0)
  /\ [][ Called("finishTrial")
           => /\ trialData'.trialDuration = now - startTime
              /\ (trialData'.trialDuration = 0 => now = startTime) ]_vars

C5_Witness ==
  finishCalls >= 1 /\ startTime > 0 /\ trialData.trialDuration > 0

\* C6: in the live variant every completion callback is directly preceded by
\* handTrack.stopVideo and then model.dispose, once per End press.
C6_TeardownOrder ==
  variant = "live" =>
    /\ \A i \in 1..Len(calls) :
         calls[i] = "finishTrial"
           => i > 2 /\ calls[i - 1] = "dispose" /\ calls[i - 2] = "stopVideo"
    /\ Count(calls, "stopVideo") = endClicks
    /\ Count(calls, "dispose") = endClicks
    /\ finishCalls = endClicks

C6_Witness ==
  variant = "live" /\ endClicks >= 1 /\ finishCalls >= 1

\* C7: the static-image variant issues one model.detect call, never requests a
\* frame, invokes the completion callback only after that call has resolved and
\* the label summary is written, and, when load and detect resolve, reaches the
\* completion callback without user action.
C7_StaticSingleDetect ==
  /\ [](variant = "static" =>
          /\ detectCalls <= 1
          /\ scheduled = 0
          /\ finishCalls <= 1
          /\ (finishCalls > 0 =>
                /\ pc = "done" /\ inflight = 0 /\ detectCalls = 1
                /\ status = LabelSummary(predictions)))
  /\ ((variant = "static") ~> (pc = "failed" \/ finishCalls = 1))

C7_Witness ==
  /\ variant = "static" /\ finishCalls = 1 /\ endClicks = 0
  /\ status = "Hand: open, Hand: face"

\* C8: recorder.startRecording is invoked only on an idle recorder,
\* recorder.stopRecording only on a recording one, and the Start Recording and
\* Stop Recording buttons are never both enabled.
C8_RecordingToggle ==
  /\ [](~(buttons /\ ~btnStartDisabled /\ ~btnStopDisabled))
  /\ [][ /\ (Called("startRecording") => recorder = "idle")
         /\ (Called("stopRecording") => recorder = "recording") ]_vars

C8_Witness ==
  Count(calls, "startRecording") = 1 /\ Count(calls, "stopRecording") = 1

\* C9: once the record has been handed to the completion callback, neither its
\* trial nor its trialDuration field changes again.
C9_RecordFinalizedOnce ==
  [][ finishCalls > 0 => trialData' = trialData ]_vars

\* C10: in the live variant startVideo is requested only once load has
\* resolved, model.detect is called only once startVideo has resolved true, and
\* when startVideo resolves false no detect call is made and the status stays
\* at the negative default.
C10_LifecycleOrder ==
  variant = "live" =>
    /\ (videoP # "none" => loadP = "resolved")
    /\ (Count(calls, "startVideo") > 0 => loadP = "resolved")
    /\ (detectCalls > 0 \/ inflight > 0 \/ scheduled > 0 => videoP = "true")
    /\ (videoP = "false" => detectCalls = 0 /\ status = StatusInvalid)

C10_Witness ==
  variant = "live" /\ videoP = "false" /\ pc = "done" /\ endClicks > 0

\* the step is the continuation of a resolved model.detect call of the poll loop
IterationCompleted ==
  variant = "live" /\ detectP = "pending" /\ detectP' = "resolved"

\* C11: a completed detection iteration shows the affirmative status with the
\* lightgreen border exactly when validPositioning of that iteration's
\* predictions holds and the negative status with the red border otherwise,
\* whatever was shown before; the affirmative status and the lightgreen border
\* always occur together.
C11_FeedbackFromCurrentFrame ==
  /\ [](variant = "live" =>
          /\ ((status = StatusValid) <=> (border = BorderValid))
          /\ ~(status = StatusValid /\ border = BorderInvalid))
  /\ [][ IterationCompleted =>
           IF NonSentinel(predictions') >= 2
             THEN status' = StatusValid /\ border' = BorderValid
             ELSE status' = StatusInvalid /\ border' = BorderInvalid ]_vars

C11_Witness ==
  /\ variant = "live" /\ detectCalls >= 2 /\ scheduled = 1
  /\ status = StatusInvalid /\ border = BorderInvalid

\* C12: whenever a model.detect call of the poll loop resolves, its predictions
\* are rendered and one next frame is requested; with detect calls settling and
\* frames being delivered, every resolved call is followed by another
\* model.detect call, and every issued call by its settlement, so the loop runs
\* on for as long as no call rejects.
C12_LoopNeverTerminates ==
  /\ [][ IterationCompleted =>
           /\ rendered' = << predictions' >>
           /\ scheduled' = scheduled + 1 ]_vars
  /\ ((variant = "live" /\ detectP = "resolved") ~> (detectP = "pending"))
  /\ ((variant = "live" /\ detectP = "pending") ~> (detectP \in {"resolved", "rejected"}))

C12_Witness ==
  /\ variant = "live" /\ detectP = "pending" /\ detectCalls = MaxDetect
  /\ rendered # << >> /\ finishCalls > 0

\* the latest model.detect call of the poll loop has rejected
LoopHalted ==
  variant = "live" /\ detectP = "rejected"

\* C13: a rejected model.detect call of the poll loop changes neither status,
\* border, canvas nor the trial record and requests no frame; from then on no
\* model.detect call is issued, no frame is pending, and status and border keep
\* the values of the last successful iteration (or the default), never an
\* error text.
C13_RejectedDetectHaltsLoop ==
  /\ [][ (variant = "live" /\ detectP = "pending" /\ detectP' = "rejected")
           => /\ status' = status /\ border' = border /\ rendered' = rendered
              /\ trialData' = trialData
              /\ inflight' = 0 /\ scheduled' = 0 ]_vars
  /\ [][ LoopHalted
           => /\ detectP' = "rejected" /\ inflight' = 0 /\ scheduled' = 0
              /\ detectCalls' = detectCalls
              /\ status' = status /\ border' = border ]_vars
  /\ [](LoopHalted => status \in {StatusInvalid, StatusValid})

C13_Witness ==
  /\ LoopHalted /\ detectCalls >= 2 /\ pc = "done"
  /\ status = StatusValid /\ border = BorderValid

\* C14: while handTrack.load has not resolved (pending or rejected), and in the
\* live variant while getUserMedia has not resolved, the completion callback
\* has not been invoked, no button exists to press, and the status shows only
\* the loading or feedback texts; a rejection is final.
C14_NoRecoveryPath ==
  /\ [](loadP # "resolved" =>
          /\ finishCalls = 0 /\ ~buttons
          /\ status = (IF variant = "live" THEN StatusLoading ELSE StatusAnalyzing))
  /\ [](variant = "live" /\ mediaP # "resolved" =>
          /\ finishCalls = 0 /\ ~buttons
          /\ status \in {StatusLoading, StatusInvalid, StatusValid})
  /\ [][ /\ (loadP = "rejected" => loadP' = "rejected")
         /\ (mediaP = "rejected" => mediaP' = "rejected") ]_vars

C14_Witness ==
  /\ variant = "live" /\ mediaP = "rejected" /\ now > startTime
  /\ detectP = "resolved" /\ finishCalls = 0

\* the step is a press of Start Recording, Stop Recording or Show / Hide Video
RecordingOrHideStep ==
  \/ Called("startRecording")
  \/ Called("stopRecording")
  \/ (visibility # "none" /\ visibility' # visibility)

\* the step issues, settles or schedules a model.detect call
DetectionStep ==
  inflight' # inflight \/ scheduled' # scheduled \/ detectP' # detectP

\* C15: Start Recording, Stop Recording and Show / Hide Video change neither the
\* poll-loop state, the status text, the canvas border nor the trial record,
\* and a detection step changes neither the recorder state nor the
\* enabled/disabled state of the recording buttons.
C15_RecordingIndependentOfDetection ==
  [][ /\ (RecordingOrHideStep =>
            /\ UNCHANGED << inflight, detectP, scheduled, predictions, detectCalls >>
            /\ UNCHANGED << status, border, rendered, trialData >>)
      /\ (DetectionStep =>
            UNCHANGED << recorder, stopCbPending, btnStartDisabled, btnStopDisabled,
                         buttons >>) ]_vars

C15_Witness ==
  /\ variant = "live" /\ recorder = "stopped" /\ visibility = "hidden"
  /\ detectP = "pending" /\ detectCalls >= 2 /\ status = StatusValid

\* C16: in the live variant handTrack.stopVideo, model.dispose and the
\* completion callback are invoked only in steps taken when handTrack.load and
\* getUserMedia have both resolved and the button row exists.
C16_EndOnlyAfterSetup ==
  /\ [][ (variant = "live"
            /\ (Called("stopVideo") \/ Called("dispose") \/ Called("finishTrial")))
           => (loadP = "resolved" /\ mediaP = "resolved" /\ buttons) ]_vars
  /\ [](variant = "live" /\ Count(calls, "dispose") > 0
          => loadP = "resolved" /\ mediaP = "resolved")

C16_Witness ==
  /\ variant = "live" /\ Count(calls, "dispose") = 1 /\ finishCalls = 1
  /\ detectCalls >= 1

\* C16, second half: a state in which the poll loop has already run while the
\* End button does not exist yet (reachable, so its negation is no invariant)
C16_LoopRunsBeforeEndButton ==
  variant = "live" /\ ~buttons /\ mediaP = "pending" /\ detectCalls = MaxDetect

\* methods of the recorder object
RecorderMethods == {"startRecording", "stopRecording", "getBlob", "destroy"}

\* C17: recorder.startRecording and recorder.stopRecording are each invoked at
\* most once per trial, both recording buttons are disabled from Stop Recording
\* on, and recorder.destroy is directly preceded by getBlob and
\* invokeSaveAsDialog and followed by no recorder method.
C17_SingleRecording ==
  /\ Count(calls, "startRecording") <= 1
  /\ Count(calls, "stopRecording") <= 1
  /\ Count(calls, "destroy") <= 1
  /\ (Count(calls, "stopRecording") > 0 => btnStartDisabled /\ btnStopDisabled)
  /\ \A i \in 1..Len(calls) :
       calls[i] = "destroy" =>
         /\ i > 2 /\ calls[i - 1] = "invokeSaveAsDialog" /\ calls[i - 2] = "getBlob"
         /\ \A j \in (i + 1)..Len(calls) : calls[j] \notin RecorderMethods
  /\ (recorder = "destroyed" <=> Count(calls, "destroy") = 1)

C17_Witness ==
  /\ recorder = "destroyed" /\ btnStartDisabled /\ btnStopDisabled
  /\ calls[Len(calls)] = "finishTrial" /\ visibility = "hidden"
====
